---- MODULE Spec2Model ----
(***************************************************************************)
(* GitZip Deployer: the wizard controller (src/App.tsx), the hosting-API   *)
(* client (src/services/githubService.ts), the archive decoder             *)
(* (src/services/zipService.ts) and the metadata suggester                 *)
(* (src/services/geminiService.ts).                                        *)
(*                                                                         *)
(* One action is one run-to-completion step of the JavaScript event loop:  *)
(* a user event handler up to its first await, or the continuation of an   *)
(* await up to the next one.  Text is a sequence of one-character strings, *)
(* so that toLowerCase, replace, split, trim and btoa are computed.        *)
(***************************************************************************)
EXTENDS Integers, Sequences, FiniteSets, Bags, TLC

\* ------------------------------------------------------------------ bounds
\* user events (edits, picks, clicks) handled in one behaviour
MaxEvents == 5
\* entries of an uploaded archive
MaxEntries == 2
\* entries of the archive a publish-only behaviour starts from
MaxPubFiles == 6
\* the same, when the hosting API answers every call
MaxBatchFiles == 12

\* -------------------------------------------------------- program constant
\* githubService.ts: const chunkSize = 5
chunkSize == 5

\* --------------------------------------------------------------- text
Upper == <<"A","B","C","D","E","F","G","H","I","J","K","L","M",
           "N","O","P","Q","R","S","T","U","V","W","X","Y","Z">>
Lower == <<"a","b","c","d","e","f","g","h","i","j","k","l","m",
           "n","o","p","q","r","s","t","u","v","w","x","y","z">>
Digits == <<"0","1","2","3","4","5","6","7","8","9">>

Range(s) == {s[i] : i \in DOMAIN s}

IndexIn(c, tbl) == CHOOSE i \in DOMAIN tbl : tbl[i] = c

\* String.prototype.toLowerCase, one character
LowerChar(c) == IF c \in Range(Upper) THEN Lower[IndexIn(c, Upper)] ELSE c

\* String.prototype.toLowerCase
ToLowerCase(s) == [i \in DOMAIN s |-> LowerChar(s[i])]

\* String.prototype.endsWith
EndsWith(s, suf) ==
    /\ Len(s) >= Len(suf)
    /\ SubSeq(s, Len(s) - Len(suf) + 1, Len(s)) = suf

\* the character class [a-zA-Z0-9-]
IsRepoChar(c) == c \in Range(Upper) \cup Range(Lower) \cup Range(Digits) \cup {"-"}

S_zip == <<".","z","i","p">>
S_rar == <<".","r","a","r">>
S_7z == <<".","7","z">>

\* name.replace(/\.(zip|rar|7z)$/i, '')
StripArchiveSuffix(s) ==
    LET l == ToLowerCase(s)
    IN  IF EndsWith(l, S_zip) \/ EndsWith(l, S_rar) THEN SubSeq(s, 1, Len(s) - 4)
        ELSE IF EndsWith(l, S_7z) THEN SubSeq(s, 1, Len(s) - 3)
        ELSE s

\* .replace(/[^a-zA-Z0-9-]/g, '-')
DashOthers(s) == [i \in DOMAIN s |-> IF IsRepoChar(s[i]) THEN s[i] ELSE "-"]

\* App.tsx handleFileUpload: baseName
BaseName(fileName) == ToLowerCase(DashOthers(StripArchiveSuffix(fileName)))

\* String.prototype.trim (blanks only)
RECURSIVE Trim(_)
Trim(s) ==
    IF s = <<>> THEN s
    ELSE IF Head(s) = " " THEN Trim(Tail(s))
    ELSE IF s[Len(s)] = " " THEN Trim(SubSeq(s, 1, Len(s) - 1))
    ELSE s

\* String.prototype.split(','): never empty, '' gives ['']
RECURSIVE SplitComma(_, _)
SplitComma(s, cur) ==
    IF s = <<>> THEN <<cur>>
    ELSE IF Head(s) = "," THEN <<cur>> \o SplitComma(Tail(s), <<>>)
    ELSE SplitComma(Tail(s), Append(cur, Head(s)))

\* Array.prototype.includes
Includes(seq, x) == \E i \in DOMAIN seq : seq[i] = x

\* a || b on strings
OrElse(a, b) == IF a = "" THEN b ELSE a

\* a || b on text
OrElseText(a, b) == IF a = <<>> THEN b ELSE a

Min(a, b) == IF a < b THEN a ELSE b

\* the base64 alphabet of btoa
B64 == Upper \o Lower \o Digits \o <<"+", "/">>

\* btoa on a byte string
RECURSIVE Btoa(_)
Btoa(bytes) ==
    IF bytes = <<>> THEN <<>>
    ELSE LET n  == Min(3, Len(bytes))
             b2 == IF n >= 2 THEN bytes[2] ELSE 0
             b3 == IF n >= 3 THEN bytes[3] ELSE 0
             v  == bytes[1] * 65536 + b2 * 256 + b3
             c3 == IF n >= 2 THEN B64[((v \div 64) % 64) + 1] ELSE "="
             c4 == IF n >= 3 THEN B64[(v % 64) + 1] ELSE "="
         IN  <<B64[(v \div 262144) + 1], B64[((v \div 4096) % 64) + 1], c3, c4>>
                 \o Btoa(SubSeq(bytes, n + 1, Len(bytes)))

\* the UTF-8 bytes of one character: unescape(encodeURIComponent(c))
Utf8Char(c) ==
    IF c \in Range(Upper) THEN <<64 + IndexIn(c, Upper)>>
    ELSE IF c \in Range(Lower) THEN <<96 + IndexIn(c, Lower)>>
    ELSE IF c \in Range(Digits) THEN <<47 + IndexIn(c, Digits)>>
    ELSE IF c = " " THEN <<32>>
    ELSE IF c = "#" THEN <<35>>
    ELSE IF c = "-" THEN <<45>>
    ELSE IF c = "." THEN <<46>>
    ELSE IF c = "\n" THEN <<10>>
    ELSE <<195, 169>>   \* e-acute, the one non-ASCII character of the alphabet

RECURSIVE Utf8(_)
Utf8(s) == IF s = <<>> THEN <<>> ELSE Utf8Char(Head(s)) \o Utf8(Tail(s))

\* ------------------------------------------------------------- values
\* null
Null == <<>>
Some(x) == <<x>>

\* the message of an Error or of a log line: a template and what is
\* interpolated into it (text, and the two counts of "Uploaded x/n blobs...")
Msg(text, arg, x, n) == [text |-> text, arg |-> arg, x |-> x, n |-> n]
Plain(text) == Msg(text, <<>>, 0, 0)

\* a JavaScript string used as a condition
Truthy(e) == e # Null /\ e[1].text # ""

\* types.ts: enum Step
AUTH == "AUTH"
UPLOAD == "UPLOAD"
CONFIG == "CONFIG"
DEPLOY == "DEPLOY"
SUCCESS == "SUCCESS"

\* types.ts: LogEntry (the timestamp is not modelled)
LogEntry(message, type) == [message |-> message, type |-> type]

\* types.ts: FileNode
FileNode(path, content, isBinary, size) ==
    [path |-> path, content |-> content, isBinary |-> isBinary, size |-> size]

\* App.tsx: the initial repoConfig, also set by "Deploy Another Project"
EmptyConfig ==
    [name |-> <<>>, description |-> <<>>, isPrivate |-> FALSE,
     includeReadme |-> TRUE, readmeContent |-> <<>>]

S_repo == <<"r","e","p","o">>
S_public_repo == <<"p","u","b","l","i","c","_","r","e","p","o">>
S_octo == <<"o","c","t","o">>

\* what the identity endpoint may answer: a failure with a message, or an
\* identity with the x-oauth-scopes header (absent, or a comma separated list)
ScopeHeaders ==
    { Null,
      Some(S_repo),
      Some(<<"g","i","s","t",","," ">> \o S_public_repo),
      Some(<<"u","s","e","r",",","r","e","p","o",":","s","t","a","t","u","s">>),
      Some(<<"r","e","p","o","s">>) }
IdentityAnswers ==
    [ok : {FALSE}, message : {"", "Bad credentials"}, login : {<<>>},
     name : {<<>>}, header : {Null}]
    \cup
    [ok : {TRUE}, message : {""}, login : {S_octo},
     name : {<<>>, <<"O">>}, header : ScopeHeaders]

\* what the user may type as a token
Tokens == {"", "ghp_a", "ghp_b"}

VARIABLES
    step,            \* App: step
    token,           \* App: token
    user,            \* App: user (Null or Some(UserProfile))
    isVerifying,     \* App: isVerifying
    isProcessing,    \* App: isProcessing
    files,           \* App: files
    error,           \* App: error (Null or Some(message))
    repoConfig,      \* App: repoConfig
    logs,            \* App: logs
    deployUrl,       \* App: deployUrl
    octokit,         \* githubService.octokit (Null or Some(token))
    verifs,          \* handleVerifyAndConnect calls awaiting verifyToken
    uploads,         \* handleFileUpload calls awaiting processFile
    aiCalls,         \* handleAiGenerate calls awaiting generateRepoDetails
    deploys,         \* handleDeploy calls, running and finished, oldest first
    eventsLeft,      \* user events the behaviour may still handle
    verified,        \* history: tokens verified as valid with a write scope
    verification,    \* handleVerifyAndConnect: the last verification (Null or Some)
    identity,        \* history: the identity endpoint's answer to that verification
    aiOutcome        \* history: the answer of the last generative-text call (Null or Some)

vars == <<step, token, user, isVerifying, isProcessing, files, error, repoConfig,
          logs, deployUrl, octokit, verifs, uploads, aiCalls, deploys, eventsLeft, verified, verification,
                   identity, aiOutcome>>

\* App.tsx: the useState initial values; githubService.octokit = null
Init ==
    /\ step = AUTH
    /\ token = ""
    /\ user = Null
    /\ isVerifying = FALSE
    /\ isProcessing = FALSE
    /\ files = <<>>
    /\ error = Null
    /\ repoConfig = EmptyConfig
    /\ logs = <<>>
    /\ deployUrl = Null
    /\ octokit = Null
    /\ verifs = EmptyBag
    /\ uploads = EmptyBag
    /\ aiCalls = EmptyBag
    /\ deploys = <<>>
    /\ eventsLeft = MaxEvents
    /\ verified = {}
    /\ verification = Null
    /\ identity = Null
    /\ aiOutcome = Null

\* --------------------------------------------------- credential verifier
\* variant that passes the error's message on as it is; C18 does not survive it
verifyToken_raw(answer) ==
    IF answer.ok
    THEN LET scopesHeader == IF answer.header = Null THEN <<>> ELSE answer.header[1]
             parts == SplitComma(scopesHeader, <<>>)
         IN  [isValid |-> TRUE,
              scopes |-> [i \in DOMAIN parts |-> Trim(parts[i])],
              user |-> Some([login |-> answer.login,
                             name |-> OrElseText(answer.name, answer.login)]),
              error |-> ""]
    ELSE [isValid |-> FALSE, scopes |-> <<>>, user |-> Null, error |-> answer.message]

\* githubService.ts verifyToken, given the identity endpoint's answer
verifyToken(answer) ==
    IF answer.ok
    THEN LET scopesHeader == IF answer.header = Null THEN <<>> ELSE answer.header[1]
             parts == SplitComma(scopesHeader, <<>>)
         IN  [isValid |-> TRUE,
              scopes |-> [i \in DOMAIN parts |-> Trim(parts[i])],
              user |-> Some([login |-> answer.login,
                             name |-> OrElseText(answer.name, answer.login)]),
              error |-> ""]
    ELSE [isValid |-> FALSE, scopes |-> <<>>, user |-> Null,
          error |-> OrElse(answer.message, "Invalid Token")]

\* variant that accepts any scope beginning with "repo"; C8 does not survive it
HasRepoScope_prefix(scopes) ==
    \E i \in DOMAIN scopes : Len(scopes[i]) >= 4 /\ SubSeq(scopes[i], 1, 4) = S_repo

\* App.tsx line 99: the scope test of handleVerifyAndConnect
HasRepoScope(scopes) == Includes(scopes, S_repo) \/ Includes(scopes, S_public_repo)

\* variant that leaves the client unset; C9 does not survive it
initialize_skip(t) == Null

\* githubService.ts initialize
initialize(t) == Some(t)

\* renderAuth: the token input
SetToken(t) ==
    /\ step = AUTH
    /\ eventsLeft > 0
    /\ eventsLeft' = eventsLeft - 1
    /\ t # token
    /\ token' = t
    /\ UNCHANGED <<step, user, isVerifying, isProcessing, files, error, repoConfig,
                   logs, deployUrl, octokit, verifs, uploads, aiCalls, deploys,
                   verified, verification,
                   identity, aiOutcome>>

\* handleVerifyAndConnect up to the await ("Verify Token", disabled while
\* !token || isVerifying)
ClickVerify ==
    /\ step = AUTH
    /\ token # ""
    /\ ~isVerifying
    /\ eventsLeft > 0
    /\ eventsLeft' = eventsLeft - 1
    /\ isVerifying' = TRUE
    /\ error' = Null
    /\ verifs' = verifs (+) SetToBag({token})
    /\ UNCHANGED <<step, token, user, isProcessing, files, repoConfig, logs,
                   deployUrl, octokit, uploads, aiCalls, deploys, verified, verification,
                   identity, aiOutcome>>

\* handleVerifyAndConnect after the await
VerifyDone(t, answer) ==
    LET v == verifyToken(answer)
    IN  /\ BagIn(t, verifs)
        /\ verifs' = verifs (-) SetToBag({t})
        /\ verification' = Some(v)
        /\ identity' = Some(answer)
        /\ verified' = IF v.isValid /\ {S_repo, S_public_repo} \cap Range(v.scopes) # {}
                       THEN verified \cup {t} ELSE verified
        /\ isVerifying' = FALSE
        /\ IF ~v.isValid
           THEN /\ error' = Some(Plain(OrElse(OrElse(v.error, "Token Invalid"),
                                             "Connection Failed")))
                /\ UNCHANGED <<step, user, octokit>>
           ELSE IF ~HasRepoScope(v.scopes)
           THEN /\ error' = Some(Plain("Token missing 'repo' scope. Please create a new token with full repo permissions."))
                /\ UNCHANGED <<step, user, octokit>>
           ELSE /\ octokit' = initialize(t)
                /\ user' = v.user
                /\ step' = UPLOAD
                /\ UNCHANGED error
        /\ UNCHANGED <<token, isProcessing, files, repoConfig, logs, deployUrl,
                       uploads, aiCalls, deploys, eventsLeft, aiOutcome>>

\* ------------------------------------------------------- archive decoder
S_README_md == <<"R","E","A","D","M","E",".","m","d">>
S_readme_md == <<"r","e","a","d","m","e",".","m","d">>
S_App_zip == <<"A","p","p",".","z","i","p">>
S_dotZIP == <<".","Z","I","P">>

\* the k-th path of the generated path pool: f0, f1, ..., fA, fB, ...
PoolPath(k) == <<"f", (Digits \o Upper)[k]>>

\* the k-th entry of the generated archives: a directory, two spellings of
\* the README, then plain files (the second one empty)
ZipEntry(k) ==
    IF k = 1 THEN [name |-> <<"s","/">>, dir |-> TRUE, bytes |-> <<>>]
    ELSE IF k = 2 THEN [name |-> S_readme_md, dir |-> FALSE, bytes |-> <<104, 105>>]
    ELSE IF k = 3 THEN [name |-> S_README_md, dir |-> FALSE, bytes |-> <<72>>]
    ELSE [name |-> PoolPath(k), dir |-> FALSE,
          bytes |-> IF k = 5 THEN <<>> ELSE <<k, 0, 255, k>>]

\* a File: its name, its bytes, and what JSZip.loadAsync makes of the bytes
\* (Null: it throws; else the entries, in the order of Object.keys)
File(name, bytes, zip) == [name |-> name, bytes |-> bytes, zip |-> zip]

\* the files the user may pick
PickableFiles ==
    { File(S_App_zip, <<80, 75>>, Some([i \in 1..k |-> ZipEntry(i)])) : k \in 0..MaxEntries }
    \cup { File(S_App_zip, <<0>>, Null),
           File(S_dotZIP, <<80, 75, 5>>, Null) }

\* variant that makes a record of every entry, directories too; C21 does not survive it
EntryNodes_all(entries) ==
    [i \in DOMAIN entries |->
        FileNode(entries[i].name, Btoa(entries[i].bytes), TRUE, Len(Btoa(entries[i].bytes)))]

\* zipService.ts processFile lines 15-25: the records of the entries
RECURSIVE EntryNodes(_)
EntryNodes(entries) ==
    IF entries = <<>> THEN <<>>
    ELSE LET entry == Head(entries)
             content == Btoa(entry.bytes)
         IN  (IF ~entry.dir
              THEN <<FileNode(entry.name, content, TRUE, Len(content))>>
              ELSE <<>>) \o EntryNodes(Tail(entries))

\* variant that answers no records for an unreadable archive; C19 does not survive it
processFile_lenient(file) ==
    IF EndsWith(file.name, S_zip)
    THEN [ok |-> TRUE, nodes |-> IF file.zip = Null THEN <<>> ELSE EntryNodes(file.zip[1])]
    ELSE [ok |-> TRUE,
          nodes |-> <<FileNode(file.name, Btoa(file.bytes), TRUE, Len(file.bytes))>>]

\* zipService.ts processFile: [ok, nodes]; ok = FALSE when loadAsync throws
processFile(file) ==
    IF EndsWith(file.name, S_zip)
    THEN IF file.zip = Null
         THEN [ok |-> FALSE, nodes |-> <<>>]
         ELSE [ok |-> TRUE, nodes |-> EntryNodes(file.zip[1])]
    ELSE [ok |-> TRUE,
          nodes |-> <<FileNode(file.name, Btoa(file.bytes), TRUE, Len(file.bytes))>>]

S_readmeTail ==
    <<"\n","\n","A","u","t","o","m","a","t","e","d"," ","d","e","p","l","o","y","m","e","n","t",
      " ","v","i","a"," ","G","i","t","Z","i","p"," ","A","I",".">>

\* App.tsx lines 126-130: the configuration after a decoded upload
ConfigAfterUpload(prev, fileName) ==
    [prev EXCEPT !.name = BaseName(fileName),
                 !.readmeContent = <<"#", " ">> \o BaseName(fileName) \o S_readmeTail]

\* handleFileUpload up to the await (renderUpload: the file input)
PickFile(file) ==
    /\ step = UPLOAD
    /\ eventsLeft > 0
    /\ eventsLeft' = eventsLeft - 1
    /\ isProcessing' = TRUE
    /\ error' = Null
    /\ uploads' = uploads (+) SetToBag({file})
    /\ UNCHANGED <<step, token, user, isVerifying, files, repoConfig, logs, deployUrl,
                   octokit, verifs, aiCalls, deploys, verified, verification,
                   identity, aiOutcome>>

\* handleFileUpload after the await
ProcessFileDone(file) ==
    LET processed == processFile(file)
    IN  /\ BagIn(file, uploads)
        /\ uploads' = uploads (-) SetToBag({file})
        /\ isProcessing' = FALSE
        /\ IF processed.ok
           THEN /\ files' = processed.nodes
                /\ step' = CONFIG
                /\ repoConfig' = ConfigAfterUpload(repoConfig, file.name)
                /\ UNCHANGED error
           ELSE /\ error' = Some(Plain("Failed to process file. Ensure it is a valid Zip."))
                /\ UNCHANGED <<files, step, repoConfig>>
        /\ UNCHANGED <<token, user, isVerifying, logs, deployUrl, octokit, verifs,
                       aiCalls, deploys, eventsLeft, verified, verification,
                   identity, aiOutcome>>

\* ----------------------------------------------------- configuration step
\* what the user may type into the name, description and README fields
TypedNames == {<<>>, <<"x">>}
TypedDescriptions == {<<"d">>}
TypedReadmes == {<<>>, <<"#", " ", "e">>}

\* renderConfig: the "Repo Name" input
SetRepoName(n) ==
    /\ step = CONFIG
    /\ eventsLeft > 0
    /\ eventsLeft' = eventsLeft - 1
    /\ n # repoConfig.name
    /\ repoConfig' = [repoConfig EXCEPT !.name = n]
    /\ UNCHANGED <<step, token, user, isVerifying, isProcessing, files, error, logs,
                   deployUrl, octokit, verifs, uploads, aiCalls, deploys, verified, verification,
                   identity, aiOutcome>>

\* renderConfig: the "Public" and "Private" buttons
SetVisibility(private) ==
    /\ step = CONFIG
    /\ eventsLeft > 0
    /\ eventsLeft' = eventsLeft - 1
    /\ private # repoConfig.isPrivate
    /\ repoConfig' = [repoConfig EXCEPT !.isPrivate = private]
    /\ UNCHANGED <<step, token, user, isVerifying, isProcessing, files, error, logs,
                   deployUrl, octokit, verifs, uploads, aiCalls, deploys, verified, verification,
                   identity, aiOutcome>>

\* renderConfig: the "Description" input
SetDescription(d) ==
    /\ step = CONFIG
    /\ eventsLeft > 0
    /\ eventsLeft' = eventsLeft - 1
    /\ d # repoConfig.description
    /\ repoConfig' = [repoConfig EXCEPT !.description = d]
    /\ UNCHANGED <<step, token, user, isVerifying, isProcessing, files, error, logs,
                   deployUrl, octokit, verifs, uploads, aiCalls, deploys, verified, verification,
                   identity, aiOutcome>>

\* renderConfig: the README.md checkbox
SetIncludeReadme(checked) ==
    /\ step = CONFIG
    /\ eventsLeft > 0
    /\ eventsLeft' = eventsLeft - 1
    /\ checked # repoConfig.includeReadme
    /\ repoConfig' = [repoConfig EXCEPT !.includeReadme = checked]
    /\ UNCHANGED <<step, token, user, isVerifying, isProcessing, files, error, logs,
                   deployUrl, octokit, verifs, uploads, aiCalls, deploys, verified, verification,
                   identity, aiOutcome>>

\* renderConfig: the README textarea (rendered when includeReadme; the
\* edit/preview toggle in front of it is presentation and not modelled)
SetReadmeContent(t) ==
    /\ step = CONFIG
    /\ eventsLeft > 0
    /\ eventsLeft' = eventsLeft - 1
    /\ repoConfig.includeReadme
    /\ t # repoConfig.readmeContent
    /\ repoConfig' = [repoConfig EXCEPT !.readmeContent = t]
    /\ UNCHANGED <<step, token, user, isVerifying, isProcessing, files, error, logs,
                   deployUrl, octokit, verifs, uploads, aiCalls, deploys, verified, verification,
                   identity, aiOutcome>>

\* renderConfig: the "Back" button
ClickBack ==
    /\ step = CONFIG
    /\ eventsLeft > 0
    /\ eventsLeft' = eventsLeft - 1
    /\ step' = UPLOAD
    /\ UNCHANGED <<token, user, isVerifying, isProcessing, files, error, repoConfig, logs,
                   deployUrl, octokit, verifs, uploads, aiCalls, deploys, verified, verification,
                   identity, aiOutcome>>

\* ---------------------------------------------------- metadata suggester
S_ai == <<"a","i">>

\* what the generative-text call may do: throw, answer without text, answer
\* text that is no JSON, or answer JSON (a field may be missing or empty)
AiAnswers ==
    [kind : {"error", "empty", "badjson"}, name : {<<>>}, description : {<<>>},
     readmeContent : {<<>>}]
    \cup
    { [kind |-> "json", name |-> S_ai, description |-> S_ai, readmeContent |-> S_ai],
      [kind |-> "json", name |-> <<>>, description |-> S_ai, readmeContent |-> <<>>],
      [kind |-> "json", name |-> <<>>, description |-> <<>>, readmeContent |-> <<>>] }

\* geminiService.ts generateRepoDetails lines 28-58, given the call's outcome
generateRepoDetails(answer) ==
    IF answer.kind = "json"
    THEN [ok |-> TRUE, name |-> answer.name, description |-> answer.description,
          readmeContent |-> answer.readmeContent]
    ELSE [ok |-> FALSE, name |-> <<>>, description |-> <<>>, readmeContent |-> <<>>]

\* variant that takes every suggested field, empty or not; C28 does not survive it
MergeSuggestion_always(prev, suggestion) ==
    [prev EXCEPT !.name = suggestion.name,
                 !.description = suggestion.description,
                 !.readmeContent = suggestion.readmeContent]

\* App.tsx lines 147-152: the merge of a suggestion
MergeSuggestion(prev, suggestion) ==
    [prev EXCEPT !.name = OrElseText(suggestion.name, prev.name),
                 !.description = OrElseText(suggestion.description, prev.description),
                 !.readmeContent = OrElseText(suggestion.readmeContent, prev.readmeContent)]

\* Array.prototype.map(f => f.path)
Paths(fs) == [i \in DOMAIN fs |-> fs[i].path]

\* handleAiGenerate up to the await ("AI Enhance", disabled while isProcessing)
ClickAiGenerate ==
    /\ step = CONFIG
    /\ ~isProcessing
    /\ eventsLeft > 0
    /\ eventsLeft' = eventsLeft - 1
    /\ isProcessing' = TRUE
    /\ aiCalls' = aiCalls (+) SetToBag({Paths(files)})
    /\ UNCHANGED <<step, token, user, isVerifying, files, error, repoConfig, logs,
                   deployUrl, octokit, verifs, uploads, deploys, verified, verification,
                   identity, aiOutcome>>

\* variant whose failure branch resets the configuration; C12 does not survive it
AiDone_reset(paths, answer) ==
    LET suggestion == generateRepoDetails(answer)
    IN  /\ BagIn(paths, aiCalls)
        /\ aiCalls' = aiCalls (-) SetToBag({paths})
        /\ isProcessing' = FALSE
        /\ aiOutcome' = Some(answer)
        /\ IF suggestion.ok
           THEN /\ repoConfig' = MergeSuggestion(repoConfig, suggestion)
                /\ UNCHANGED error
           ELSE /\ error' = Some(Plain("AI Generation failed. Check API Key configuration."))
                /\ repoConfig' = EmptyConfig
        /\ UNCHANGED <<step, token, user, isVerifying, files, logs, deployUrl, octokit,
                       verifs, uploads, deploys, eventsLeft, verified, verification,
                       identity>>

\* handleAiGenerate after the await
AiDone(paths, answer) ==
    LET suggestion == generateRepoDetails(answer)
    IN  /\ BagIn(paths, aiCalls)
        /\ aiCalls' = aiCalls (-) SetToBag({paths})
        /\ isProcessing' = FALSE
        /\ aiOutcome' = Some(answer)
        /\ IF suggestion.ok
           THEN /\ repoConfig' = MergeSuggestion(repoConfig, suggestion)
                /\ UNCHANGED error
           ELSE /\ error' = Some(Plain("AI Generation failed. Check API Key configuration."))
                /\ UNCHANGED repoConfig
        /\ UNCHANGED <<step, token, user, isVerifying, files, logs, deployUrl, octokit,
                       verifs, uploads, deploys, eventsLeft, verified, verification,
                       identity>>

\* ------------------------------------------------------------ hosting API
S_refs == <<"r","e","f","s","/">>
S_heads_main == <<"h","e","a","d","s","/","m","a","i","n">>
S_heads_master == <<"h","e","a","d","s","/","m","a","s","t","e","r">>
S_github == <<"h","t","t","p","s",":","/","/","g","i","t","h","u","b",".","c","o","m","/">>

\* variant that removes nothing; C11 does not survive it
RemoveFirst_none(s, pat) == s

\* String.prototype.replace(pattern, ''): the first occurrence only
RECURSIVE RemoveFirst(_, _)
RemoveFirst(s, pat) ==
    IF Len(s) < Len(pat) THEN s
    ELSE IF SubSeq(s, 1, Len(pat)) = pat THEN SubSeq(s, Len(pat) + 1, Len(s))
    ELSE <<Head(s)>> \o RemoveFirst(Tail(s), pat)

\* how a remote call may end: with a result, or with an error that carries
\* a status and a message (possibly empty)
ApiAnswers ==
    { [ok |-> TRUE, status |-> 200, message |-> ""],
      [ok |-> FALSE, status |-> 500, message |-> "Server Error"],
      [ok |-> FALSE, status |-> 500, message |-> ""] }
\* repos.get of a repository that does not exist
NotFound == [ok |-> FALSE, status |-> 404, message |-> "Not Found"]

\* what the remote returns (one fixed repository history)
RefData(ref) ==
    [ref |-> S_refs \o ref,
     sha |-> IF ref = S_heads_main THEN "commit-main" ELSE "commit-master"]
CommitTree(commit_sha) == IF commit_sha = "commit-main" THEN "tree-main" ELSE "tree-master"
BlobSha(content) == <<"b", ":">> \o content
NewTreeSha == "tree-new"
NewCommitSha == "commit-new"
HtmlUrl(owner, repo) == S_github \o owner \o <<"/">> \o repo

\* a request to the hosting API: the operation and the parameters passed
\* (force: Null when the parameter is not passed)
ApiCall(op) ==
    [op |-> op, owner |-> <<>>, repo |-> <<>>, description |-> <<>>, private |-> FALSE,
     ref |-> <<>>, sha |-> "", path |-> <<>>, content |-> <<>>, base_tree |-> "",
     tree |-> <<>>, parents |-> <<>>, force |-> Null]

\* ------------------------------------------------------------- publishing
\* variant that appends the README without removing any record; C4 does not survive it
FilesToUpload_keep(fs, config) ==
    IF config.includeReadme
    THEN LET readmeB64 == Btoa(Utf8(OrElseText(config.readmeContent, <<>>)))
         IN  Append(fs, FileNode(S_README_md, readmeB64, FALSE, Len(readmeB64)))
    ELSE fs

\* variant that compares the path as it is spelled; C20 does not survive it
FilesToUpload_cased(fs, config) ==
    IF config.includeReadme
    THEN LET kept == SelectSeq(fs, LAMBDA f : f.path # S_readme_md)
             readmeB64 == Btoa(Utf8(OrElseText(config.readmeContent, <<>>)))
         IN  Append(kept, FileNode(S_README_md, readmeB64, FALSE, Len(readmeB64)))
    ELSE fs

\* App.tsx lines 178-188: README synthesis
FilesToUpload(fs, config) ==
    IF config.includeReadme
    THEN LET kept == SelectSeq(fs, LAMBDA f : ToLowerCase(f.path) # S_readme_md)
             readmeB64 == Btoa(Utf8(OrElseText(config.readmeContent, <<>>)))
         IN  Append(kept, FileNode(S_README_md, readmeB64, FALSE, Len(readmeB64)))
    ELSE fs

\* a handleDeploy call: the values its closure captured and its locals
\* (calls: the requests it issued; refAnswers: whether each getRef resolved)
NewDeploy(login, config, fs) ==
    [pc |-> "checkRepoExists", login |-> login, config |-> config, files |-> fs,
     filesToUpload |-> <<>>, refName |-> <<>>, latestCommitSha |-> "", baseTreeSha |-> "",
     i |-> 0, blob |-> <<>>, treeItems |-> <<>>, processed |-> 0,
     exists |-> Null, newTreeSha |-> "", newCommitSha |-> "", calls |-> <<>>,
     refAnswers |-> <<>>, thrown |-> Null]

Issue(d, call) == [d EXCEPT !.calls = Append(@, call)]

Info(text) == LogEntry(Plain(text), "info")

\* variant that puts new entries in front of the log; C22 does not survive it
Resume_front(a, d, entries) ==
    /\ deploys' = [deploys EXCEPT ![a] = d]
    /\ logs' = entries \o logs
    /\ UNCHANGED <<step, error, deployUrl>>

\* the await resumes: the call's locals and the log lines added
Resume(a, d, entries) ==
    /\ deploys' = [deploys EXCEPT ![a] = d]
    /\ logs' = logs \o entries
    /\ UNCHANGED <<step, error, deployUrl>>

\* variant that starts the log afresh with the error; C13 does not survive it
Catch_wipe(a, d, entries, message) ==
    /\ deploys' = [deploys EXCEPT ![a] = [d EXCEPT !.pc = "failed", !.thrown = Some(message)]]
    /\ logs' = <<LogEntry(IF message.text = "" THEN Plain("Deployment Failed") ELSE message,
                          "error")>>
    /\ error' = Some(message)
    /\ UNCHANGED <<step, deployUrl>>

\* variant that shows the success screen after an error; C27 does not survive it
Catch_finish(a, d, entries, message) ==
    /\ deploys' = [deploys EXCEPT ![a] = [d EXCEPT !.pc = "failed", !.thrown = Some(message)]]
    /\ logs' = logs \o entries
                \o <<LogEntry(IF message.text = "" THEN Plain("Deployment Failed") ELSE message,
                              "error")>>
    /\ error' = Some(message)
    /\ step' = SUCCESS
    /\ UNCHANGED deployUrl

\* App.tsx lines 199-203: the catch of handleDeploy
Catch(a, d, entries, message) ==
    /\ deploys' = [deploys EXCEPT ![a] = [d EXCEPT !.pc = "failed", !.thrown = Some(message)]]
    /\ logs' = logs \o entries
                \o <<LogEntry(IF message.text = "" THEN Plain("Deployment Failed") ELSE message,
                              "error")>>
    /\ error' = Some(message)
    /\ UNCHANGED <<step, deployUrl>>

NotInitialized == Plain("GitHub client not initialized")

\* variant that never disables the button; C17 does not survive it
DeployDisabled_never(config) == FALSE

\* App.tsx line 459: disabled={!repoConfig.name}
DeployDisabled(config) == config.name = <<>>

\* handleDeploy up to the first await ("Deploy Repository")
ClickDeploy ==
    /\ step = CONFIG
    /\ ~DeployDisabled(repoConfig)
    /\ user # Null
    /\ eventsLeft > 0
    /\ eventsLeft' = eventsLeft - 1
    /\ step' = DEPLOY
    /\ LET a == Len(deploys) + 1
           d == NewDeploy(user[1].login, repoConfig, files)
           first == <<LogEntry(Msg("Initializing deployment for ...", repoConfig.name, 0, 0),
                               "info")>>
       IN  IF octokit = Null
           THEN /\ deploys' = Append(deploys, [d EXCEPT !.pc = "failed",
                                                        !.thrown = Some(NotInitialized)])
                /\ logs' = first \o <<LogEntry(NotInitialized, "error")>>
                /\ error' = Some(NotInitialized)
           ELSE /\ deploys' = Append(deploys,
                        Issue(d, [ApiCall("repos.get") EXCEPT !.owner = d.login,
                                                              !.repo = d.config.name]))
                /\ logs' = first
                /\ UNCHANGED error
    /\ UNCHANGED <<token, user, isVerifying, isProcessing, files, repoConfig, deployUrl,
                   octokit, verifs, uploads, aiCalls, verified, verification,
                   identity, aiOutcome>>

Others == <<token, user, isVerifying, isProcessing, files, repoConfig, octokit, verifs,
            uploads, aiCalls, eventsLeft, verified, verification,
                   identity, aiOutcome>>

\* githubService.ts checkRepoExists lines 44-50, given the answer to repos.get
checkRepoExists(answer) ==
    [threw |-> ~answer.ok /\ answer.status # 404, value |-> answer.ok]

\* variant that never reports a name collision; C1 does not survive it
NameTaken_never(exists) == FALSE

\* App.tsx line 170: if (exists)
NameTaken(exists) == exists

\* checkRepoExists settles, App.tsx lines 169-175
CheckRepoExistsDone(a, answer) ==
    /\ a \in DOMAIN deploys
    /\ deploys[a].pc = "checkRepoExists"
    /\ LET exists == checkRepoExists(answer)
           d == [deploys[a] EXCEPT !.exists = IF exists.threw THEN Null ELSE Some(exists.value)]
       IN  IF exists.threw
           THEN Catch(a, d, <<>>, Plain(answer.message))
           ELSE IF NameTaken(exists.value)
           THEN Catch(a, d, <<>>, Msg("Repository ... already exists!", d.config.name, 0, 0))
           ELSE IF octokit = Null
           THEN Catch(a, d, <<Info("Creating repository...")>>, NotInitialized)
           ELSE Resume(a, Issue([d EXCEPT !.pc = "createRepository"],
                                [ApiCall("repos.createForAuthenticatedUser")
                                   EXCEPT !.repo = d.config.name,
                                          !.description = d.config.description,
                                          !.private = d.config.isPrivate]),
                       <<Info("Creating repository...")>>)
    /\ UNCHANGED Others

GetRef(d, ref) ==
    [ApiCall("git.getRef") EXCEPT !.owner = d.login, !.repo = d.config.name, !.ref = ref]

\* githubService.ts createRepository after its await, App.tsx lines 176-191,
\* githubService.ts lines 68-76
CreateRepositoryDone(a, answer) ==
    /\ a \in DOMAIN deploys
    /\ deploys[a].pc = "createRepository"
    /\ LET d == deploys[a]
           upload == FilesToUpload(d.files, d.config)
           d1 == [d EXCEPT !.filesToUpload = upload,
                           !.blob = [k \in DOMAIN upload |-> "none"]]
           created == <<LogEntry(Msg("Repository created: ...",
                                     HtmlUrl(d.login, d.config.name), 0, 0), "success"),
                        LogEntry(Msg("Preparing to upload ... files...", <<>>, Len(upload), 0),
                                 "info")>>
       IN  IF ~answer.ok
           THEN Catch(a, d, <<>>, Plain(answer.message))
           ELSE IF octokit = Null
           THEN Catch(a, d1, created, NotInitialized)
           ELSE Resume(a, Issue([d1 EXCEPT !.pc = "getRefMain"], GetRef(d, S_heads_main)),
                       created \o <<Info("Getting latest commit SHA...")>>)
    /\ UNCHANGED Others

\* variant that forgets the head commit once get-commit is requested; C25 does
\* not survive it
RefResolved_stale(a, d, refData) ==
    Resume(a, Issue([d EXCEPT !.pc = "getCommit",
                              !.refName = refData.ref],
                    [ApiCall("git.getCommit") EXCEPT !.owner = d.login,
                                                     !.repo = d.config.name,
                                                     !.sha = refData.sha]),
           <<Info("Getting base tree...")>>)

\* githubService.ts lines 88-96: after the ref resolved
RefResolved(a, d, refData) ==
    Resume(a, Issue([d EXCEPT !.pc = "getCommit",
                              !.latestCommitSha = refData.sha,
                              !.refName = refData.ref],
                    [ApiCall("git.getCommit") EXCEPT !.owner = d.login,
                                                     !.repo = d.config.name,
                                                     !.sha = refData.sha]),
           <<Info("Getting base tree...")>>)

\* variant that asks for 'heads/master' whatever 'heads/main' answered; C26 does
\* not survive it
GetRefMainDone_always(a, answer) ==
    /\ a \in DOMAIN deploys
    /\ deploys[a].pc = "getRefMain"
    /\ LET d == [deploys[a] EXCEPT !.refAnswers = Append(@, answer.ok)]
       IN  Resume(a, Issue([d EXCEPT !.pc = "getRefMaster"], GetRef(d, S_heads_master)),
                  <<>>)
    /\ UNCHANGED Others

\* githubService.ts lines 72-84: getRef('heads/main') settles
GetRefMainDone(a, answer) ==
    /\ a \in DOMAIN deploys
    /\ deploys[a].pc = "getRefMain"
    /\ LET d == [deploys[a] EXCEPT !.refAnswers = Append(@, answer.ok)]
       IN  IF answer.ok
           THEN RefResolved(a, d, RefData(S_heads_main))
           ELSE Resume(a, Issue([d EXCEPT !.pc = "getRefMaster"], GetRef(d, S_heads_master)),
                       <<>>)
    /\ UNCHANGED Others

\* githubService.ts lines 78-86: the fallback getRef('heads/master') settles
GetRefMasterDone(a, answer) ==
    /\ a \in DOMAIN deploys
    /\ deploys[a].pc = "getRefMaster"
    /\ LET d == [deploys[a] EXCEPT !.refAnswers = Append(@, answer.ok)]
       IN  IF answer.ok
           THEN RefResolved(a, d, RefData(S_heads_master))
           ELSE Catch(a, d, <<>>, Plain(answer.message))
    /\ UNCHANGED Others

\* variant that skips every file without content; C15 does not survive it
BlobStart_empty(file) == IF file.content = <<>> THEN "skipped" ELSE "pending"

\* githubService.ts lines 107-123: one file of a chunk up to its await
\* ("skipped": the early return of line 109)
BlobStart(file) == IF file.content = <<>> /\ file.size > 0 THEN "skipped" ELSE "pending"

\* variant that takes one file more per chunk; C14 does not survive it
Chunk_wide(d, i) == (i + 1)..Min(i + chunkSize + 1, Len(d.filesToUpload))

\* variant that takes all remaining files as one chunk; C10 does not survive it
Chunk_all(d, i) == (i + 1)..Len(d.filesToUpload)

\* the positions of the chunk that starts at offset i: files.slice(i, i + chunkSize)
Chunk(d, i) == (i + 1)..Min(i + chunkSize, Len(d.filesToUpload))

CreateBlob(d, k) ==
    [ApiCall("git.createBlob") EXCEPT !.owner = d.login, !.repo = d.config.name,
                                      !.path = d.filesToUpload[k].path,
                                      !.content = d.filesToUpload[k].content]

\* the createBlob calls of the chunk at offset i, in the order of chunk.map
RECURSIVE ChunkCalls(_, _, _)
ChunkCalls(d, k, last) ==
    IF k > last THEN <<>>
    ELSE (IF BlobStart(d.filesToUpload[k]) = "pending" THEN <<CreateBlob(d, k)>> ELSE <<>>)
             \o ChunkCalls(d, k + 1, last)

\* githubService.ts lines 105-140: the loop from offset d.i on, up to the
\* next await: a chunk with a createBlob call in flight, or createTree
RECURSIVE RunChunks(_, _)
RunChunks(d, entries) ==
    IF d.i < Len(d.filesToUpload)
    THEN LET chunk == Chunk(d, d.i)
             started == [d EXCEPT
                 !.pc = "createBlob",
                 !.blob = [k \in DOMAIN d.blob |->
                              IF k \in chunk THEN BlobStart(d.filesToUpload[k]) ELSE d.blob[k]],
                 !.calls = @ \o ChunkCalls(d, d.i + 1, d.i + Cardinality(chunk))]
         IN  IF \E k \in chunk : started.blob[k] = "pending"
             THEN [d |-> started, entries |-> entries]
             ELSE RunChunks([started EXCEPT !.processed = @ + Cardinality(chunk),
                                            !.i = @ + chunkSize],
                            Append(entries,
                                   LogEntry(Msg("Uploaded .../... blobs...", <<>>,
                                                d.processed + Cardinality(chunk),
                                                Len(d.filesToUpload)), "info")))
    ELSE [d |-> Issue([d EXCEPT !.pc = "createTree"],
                      [ApiCall("git.createTree") EXCEPT !.owner = d.login,
                                                        !.repo = d.config.name,
                                                        !.base_tree = d.baseTreeSha,
                                                        !.tree = d.treeItems]),
          entries |-> Append(entries, Info("Creating new file tree..."))]

\* githubService.ts lines 92-107: getCommit settles
GetCommitDone(a, answer) ==
    /\ a \in DOMAIN deploys
    /\ deploys[a].pc = "getCommit"
    /\ LET d == deploys[a]
           next == RunChunks([d EXCEPT !.baseTreeSha = CommitTree(d.latestCommitSha)], <<>>)
       IN  IF answer.ok
           THEN Resume(a, next.d, next.entries)
           ELSE Catch(a, d, <<>>, Plain(answer.message))
    /\ UNCHANGED Others

\* githubService.ts lines 118-123: the tree entry of an uploaded file
TreeItem(file) ==
    [path |-> file.path, mode |-> "100644", type |-> "blob", sha |-> BlobSha(file.content)]

\* variant whose message does not name the path; C5 does not survive it
UploadError_nopath(file) == Plain("Failed to upload")

\* githubService.ts line 126: the error of a failed upload
UploadError(file) == Msg("Failed to upload ...", file.path, 0, 0)

\* variant that moves on after the first upload of a chunk; C2 does not survive it
ChunkFulfilled_any(d) == \E k \in Chunk(d, d.i) : d.blob[k] \in {"done", "skipped"}

\* Promise.all of the chunk at offset d.i has every promise fulfilled
ChunkFulfilled(d) == \A k \in Chunk(d, d.i) : d.blob[k] \in {"done", "skipped"}

\* githubService.ts lines 111-131: createBlob of file k settles.  After the
\* chunk's Promise.all rejected (pc = "failed") the other uploads of the chunk
\* still settle, and only touch the abandoned call's locals.
CreateBlobDone(a, k, answer) ==
    /\ a \in DOMAIN deploys
    /\ k \in DOMAIN deploys[a].blob
    /\ deploys[a].blob[k] = "pending"
    /\ LET d == deploys[a]
           file == d.filesToUpload[k]
           ok == [d EXCEPT !.blob[k] = "done", !.treeItems = Append(@, TreeItem(file))]
           ko == [d EXCEPT !.blob[k] = "failed"]
           next == RunChunks([ok EXCEPT !.processed = @ + Cardinality(Chunk(d, d.i)),
                                        !.i = @ + chunkSize],
                             <<LogEntry(Msg("Uploaded .../... blobs...", <<>>,
                                            d.processed + Cardinality(Chunk(d, d.i)),
                                            Len(d.filesToUpload)), "info")>>)
       IN  IF d.pc = "failed"
           THEN /\ deploys' = [deploys EXCEPT ![a] = IF answer.ok THEN ok ELSE ko]
                /\ UNCHANGED <<logs, step, error, deployUrl>>
           ELSE IF ~answer.ok
           THEN Catch(a, ko, <<>>, UploadError(file))
           ELSE IF ChunkFulfilled(ok)
           THEN Resume(a, next.d, next.entries)
           ELSE Resume(a, ok, <<>>)
    /\ UNCHANGED Others

\* githubService.ts lines 135-150: createTree settles
CreateTreeDone(a, answer) ==
    /\ a \in DOMAIN deploys
    /\ deploys[a].pc = "createTree"
    /\ LET d == deploys[a]
       IN  IF answer.ok
           THEN Resume(a, Issue([d EXCEPT !.pc = "createCommit", !.newTreeSha = NewTreeSha],
                                [ApiCall("git.createCommit")
                                   EXCEPT !.owner = d.login, !.repo = d.config.name,
                                          !.tree = NewTreeSha,
                                          !.parents = <<d.latestCommitSha>>]),
                       <<Info("Creating commit...")>>)
           ELSE Catch(a, d, <<>>, Plain(answer.message))
    /\ UNCHANGED Others

\* githubService.ts lines 144-159: createCommit settles
CreateCommitDone(a, answer) ==
    /\ a \in DOMAIN deploys
    /\ deploys[a].pc = "createCommit"
    /\ LET d == deploys[a]
       IN  IF answer.ok
           THEN Resume(a, Issue([d EXCEPT !.pc = "updateRef", !.newCommitSha = NewCommitSha],
                                [ApiCall("git.updateRef")
                                   EXCEPT !.owner = d.login, !.repo = d.config.name,
                                          !.ref = RemoveFirst(d.refName, S_refs),
                                          !.sha = NewCommitSha]),
                       <<Info("Updating repository reference...")>>)
           ELSE Catch(a, d, <<>>, Plain(answer.message))
    /\ UNCHANGED Others

\* githubService.ts lines 154-161: updateRef settles, App.tsx lines 195-197
UpdateRefDone(a, answer) ==
    /\ a \in DOMAIN deploys
    /\ deploys[a].pc = "updateRef"
    /\ LET d == deploys[a]
       IN  IF answer.ok
           THEN /\ deploys' = [deploys EXCEPT ![a].pc = "done"]
                /\ deployUrl' = Some(HtmlUrl(d.login, d.config.name))
                /\ step' = SUCCESS
                /\ logs' = Append(logs, LogEntry(Plain("Deployment Successful!"), "success"))
                /\ UNCHANGED error
           ELSE Catch(a, d, <<>>, Plain(answer.message))
    /\ UNCHANGED Others

\* renderDeploy: "Return to Configuration", rendered when step === DEPLOY && error
ClickReturnToConfig ==
    /\ step = DEPLOY
    /\ eventsLeft > 0
    /\ eventsLeft' = eventsLeft - 1
    /\ Truthy(error)
    /\ step' = CONFIG
    /\ UNCHANGED <<token, user, isVerifying, isProcessing, files, error, repoConfig, logs,
                   deployUrl, octokit, verifs, uploads, aiCalls, deploys, verified, verification,
                   identity, aiOutcome>>

\* renderDeploy: "Deploy Another Project", rendered when step === SUCCESS && deployUrl
ClickDeployAnother ==
    /\ step = SUCCESS
    /\ eventsLeft > 0
    /\ eventsLeft' = eventsLeft - 1
    /\ deployUrl # Null
    /\ step' = UPLOAD
    /\ files' = <<>>
    /\ logs' = <<>>
    /\ repoConfig' = EmptyConfig
    /\ UNCHANGED <<token, user, isVerifying, isProcessing, error, deployUrl, octokit,
                   verifs, uploads, aiCalls, deploys, verified, verification,
                   identity, aiOutcome>>

\* ---------------------------------------------------------- specification
\* The whole wizard, every handler, with small input sets.
WizardTokens == {"", "ghp_a"}
WizardIdentities ==
    { a \in IdentityAnswers :
        /\ a.name = <<>>
        /\ a.message # ""
           \/ (a.ok /\ a.header \in {Some(S_repo), Some(<<"r","e","p","o","s">>)}) }
WizardFiles ==
    { File(S_App_zip, <<0>>, Null),
      File(S_App_zip, <<80, 75>>, Some(<<ZipEntry(1), ZipEntry(2)>>)),
      File(S_dotZIP, <<80, 75, 5>>, Null) }
WizardApiAnswers == { a \in ApiAnswers : a.ok \/ a.message # "" }
WizardAiAnswers == AiAnswers

Next ==
    \/ \E t \in WizardTokens : SetToken(t)
    \/ ClickVerify
    \/ \E t \in WizardTokens, answer \in WizardIdentities : VerifyDone(t, answer)
    \/ \E file \in WizardFiles : PickFile(file)
    \/ \E file \in WizardFiles : ProcessFileDone(file)
    \/ \E n \in TypedNames : SetRepoName(n)
    \/ \E b \in BOOLEAN : SetVisibility(b)
    \/ \E t \in TypedDescriptions : SetDescription(t)
    \/ \E b \in BOOLEAN : SetIncludeReadme(b)
    \/ \E t \in {<<>>} : SetReadmeContent(t)
    \/ ClickBack
    \/ ClickAiGenerate
    \/ \E paths \in BagToSet(aiCalls), answer \in WizardAiAnswers : AiDone(paths, answer)
    \/ ClickDeploy
    \/ \E a \in DOMAIN deploys :
          \/ \E answer \in WizardApiAnswers \cup {NotFound} : CheckRepoExistsDone(a, answer)
          \/ \E answer \in WizardApiAnswers : CreateRepositoryDone(a, answer)
          \/ \E answer \in WizardApiAnswers : GetRefMainDone(a, answer)
          \/ \E answer \in WizardApiAnswers : GetRefMasterDone(a, answer)
          \/ \E answer \in WizardApiAnswers : GetCommitDone(a, answer)
          \/ \E k \in DOMAIN deploys[a].blob, answer \in WizardApiAnswers :
                CreateBlobDone(a, k, answer)
          \/ \E answer \in WizardApiAnswers : CreateTreeDone(a, answer)
          \/ \E answer \in WizardApiAnswers : CreateCommitDone(a, answer)
          \/ \E answer \in WizardApiAnswers : UpdateRefDone(a, answer)
    \/ ClickReturnToConfig
    \/ ClickDeployAnother

Spec == Init /\ [][Next]_vars

\* The same wizard, one user event longer.
InitLong ==
    /\ step = AUTH
    /\ token = ""
    /\ user = Null
    /\ isVerifying = FALSE
    /\ isProcessing = FALSE
    /\ files = <<>>
    /\ error = Null
    /\ repoConfig = EmptyConfig
    /\ logs = <<>>
    /\ deployUrl = Null
    /\ octokit = Null
    /\ verifs = EmptyBag
    /\ uploads = EmptyBag
    /\ aiCalls = EmptyBag
    /\ deploys = <<>>
    /\ eventsLeft = MaxEvents + 1
    /\ verified = {}
    /\ verification = Null
    /\ identity = Null
    /\ aiOutcome = Null

SpecLong == InitLong /\ [][Next]_vars

\* One publish attempt, from the configuration step reached by a verified
\* token and a decoded archive of up to MaxPubFiles entries, under every
\* answer of the hosting API and every completion order.
PubArchive(n, r) ==
    [i \in 1..n |-> IF i <= r THEN ZipEntry(i + 1) ELSE ZipEntry(i + 3)]

InitPub ==
    /\ step = CONFIG
    /\ token = "ghp_a"
    /\ user = Some([login |-> S_octo, name |-> S_octo])
    /\ isVerifying = FALSE
    /\ isProcessing = FALSE
    /\ \/ \E n \in 0..MaxPubFiles : \E r \in 0..Min(2, n) :
             files = EntryNodes(PubArchive(n, r))
       \/ \E bytes \in {<<>>, <<7>>} :
             files = processFile(File(S_dotZIP, bytes, Null)).nodes
    /\ error = Null
    /\ \E checked \in BOOLEAN :
          repoConfig = [ConfigAfterUpload(EmptyConfig, S_App_zip)
                           EXCEPT !.includeReadme = checked]
    /\ logs = <<>>
    /\ deployUrl = Null
    /\ octokit = Some("ghp_a")
    /\ verifs = EmptyBag
    /\ uploads = EmptyBag
    /\ aiCalls = EmptyBag
    /\ deploys = <<>>
    /\ eventsLeft = 1
    /\ verified = {"ghp_a"}
    /\ verification = Some([isValid |-> TRUE, scopes |-> <<S_repo>>,
                            user |-> Some([login |-> S_octo, name |-> S_octo]),
                            error |-> ""])
    /\ identity = Some([ok |-> TRUE, message |-> "", login |-> S_octo, name |-> <<>>,
                        header |-> Some(S_repo)])
    /\ aiOutcome = Null

NextPub ==
    \/ ClickDeploy
    \/ \E a \in DOMAIN deploys :
          \/ \E answer \in ApiAnswers \cup {NotFound} : CheckRepoExistsDone(a, answer)
          \/ \E answer \in ApiAnswers : CreateRepositoryDone(a, answer)
          \/ \E answer \in ApiAnswers : GetRefMainDone(a, answer)
          \/ \E answer \in ApiAnswers : GetRefMasterDone(a, answer)
          \/ \E answer \in ApiAnswers : GetCommitDone(a, answer)
          \/ \E k \in DOMAIN deploys[a].blob, answer \in ApiAnswers :
                CreateBlobDone(a, k, answer)
          \/ \E answer \in ApiAnswers : CreateTreeDone(a, answer)
          \/ \E answer \in ApiAnswers : CreateCommitDone(a, answer)
          \/ \E answer \in ApiAnswers : UpdateRefDone(a, answer)

SpecPub == InitPub /\ [][NextPub]_vars

\* One publish attempt of up to MaxBatchFiles files without README, the
\* hosting API answering every call, under every completion order.
InitBatch ==
    /\ step = CONFIG
    /\ token = "ghp_a"
    /\ user = Some([login |-> S_octo, name |-> S_octo])
    /\ isVerifying = FALSE
    /\ isProcessing = FALSE
    /\ \E n \in 0..MaxBatchFiles : files = EntryNodes(PubArchive(n, 0))
    /\ error = Null
    /\ repoConfig = [ConfigAfterUpload(EmptyConfig, S_App_zip) EXCEPT !.includeReadme = FALSE]
    /\ logs = <<>>
    /\ deployUrl = Null
    /\ octokit = Some("ghp_a")
    /\ verifs = EmptyBag
    /\ uploads = EmptyBag
    /\ aiCalls = EmptyBag
    /\ deploys = <<>>
    /\ eventsLeft = 1
    /\ verified = {"ghp_a"}
    /\ verification = Some([isValid |-> TRUE, scopes |-> <<S_repo>>,
                            user |-> Some([login |-> S_octo, name |-> S_octo]),
                            error |-> ""])
    /\ identity = Some([ok |-> TRUE, message |-> "", login |-> S_octo, name |-> <<>>,
                        header |-> Some(S_repo)])
    /\ aiOutcome = Null

Answered == { a \in ApiAnswers : a.ok }

NextBatch ==
    \/ ClickDeploy
    \/ \E a \in DOMAIN deploys :
          \/ CheckRepoExistsDone(a, NotFound)
          \/ \E answer \in Answered : CreateRepositoryDone(a, answer)
          \/ \E answer \in Answered : GetRefMainDone(a, answer)
          \/ \E answer \in Answered : GetCommitDone(a, answer)
          \/ \E k \in DOMAIN deploys[a].blob, answer \in Answered :
                CreateBlobDone(a, k, answer)
          \/ \E answer \in Answered : CreateTreeDone(a, answer)
          \/ \E answer \in Answered : CreateCommitDone(a, answer)
          \/ \E answer \in Answered : UpdateRefDone(a, answer)

SpecBatch == InitBatch /\ [][NextBatch]_vars

\* Sign-in and file intake alone, with every identity answer and every
\* pickable file.
NextIntake ==
    \/ \E t \in Tokens : SetToken(t)
    \/ ClickVerify
    \/ \E t \in Tokens, answer \in IdentityAnswers : VerifyDone(t, answer)
    \/ \E file \in PickableFiles : PickFile(file)
    \/ \E file \in PickableFiles : ProcessFileDone(file)
    \/ ClickBack

SpecIntake == Init /\ [][NextIntake]_vars

\* ------------------------------------------------------------- properties
\* the operations an attempt has requested, in order
Requested(d) == [i \in DOMAIN d.calls |-> d.calls[i].op]
Count(seq, x) == Cardinality({i \in DOMAIN seq : seq[i] = x})
Running(d) == d.pc \notin {"done", "failed"}
LastLog == logs[Len(logs)]

\* C1: when the existence check of a publish attempt returns true, that
\* attempt never requests anything but the existence check (no repository
\* creation, get-ref, get-commit, create-blob, create-tree, create-commit or
\* update-ref), and the step in which the check returns ends the attempt,
\* appends one error entry naming the repository to the log, and leaves the
\* wizard step where it is (DEPLOY stays DEPLOY).
C1_CollisionNow(a) ==
    /\ a \in DOMAIN deploys
    /\ deploys[a].exists = Null
    /\ deploys'[a].exists = Some(TRUE)
C1_NameCollisionAborts ==
    /\ [](\A a \in DOMAIN deploys :
            deploys[a].exists = Some(TRUE) =>
               /\ deploys[a].pc = "failed"
               /\ Requested(deploys[a]) = <<"repos.get">>)
    /\ [][\A a \in DOMAIN deploys :
            C1_CollisionNow(a) =>
               /\ deploys'[a].calls = deploys[a].calls
               /\ Len(logs') = Len(logs) + 1
               /\ SubSeq(logs', 1, Len(logs)) = logs
               /\ logs'[Len(logs')] =
                     LogEntry(Msg("Repository ... already exists!", deploys[a].config.name, 0, 0),
                              "error")
               /\ step' = step
               /\ (step = DEPLOY => step' = DEPLOY)]_vars
C1_Witness ==
    \E a \in DOMAIN deploys :
        /\ deploys[a].exists = Some(TRUE)
        /\ deploys[a].pc = "failed"
        /\ step = DEPLOY
        /\ logs # <<>>
        /\ LastLog.type = "error"

\* C2: create-tree is requested only when every file of every batch has had
\* its create-blob request issued and fulfilled; while one is pending, failed
\* or not yet issued, there is no create-tree request.
C2_TreeAfterAllBlobs ==
    \A a \in DOMAIN deploys :
        LET d == deploys[a]
        IN  Includes(Requested(d), "git.createTree") =>
               /\ \A k \in DOMAIN d.filesToUpload : d.blob[k] = "done"
               /\ Count(Requested(d), "git.createBlob") = Len(d.filesToUpload)
               /\ Len(d.treeItems) = Len(d.filesToUpload)
C2_Witness ==
    \E a \in DOMAIN deploys :
        /\ Includes(Requested(deploys[a]), "git.createTree")
        /\ Len(deploys[a].filesToUpload) > 5
        /\ deploys[a].treeItems[1].path # deploys[a].filesToUpload[1].path

\* C4 as stated: with README inclusion requested, at most one record is
\* removed and one README.md record is appended; without it the file set is
\* handed over unchanged.
C4_HandedOver(d) == Includes(Requested(d), "git.getRef")
C4_ReadmeLike(fs) == {i \in DOMAIN fs : ToLowerCase(fs[i].path) = S_readme_md}
C4_AtMostOneRemoved ==
    \A a \in DOMAIN deploys :
        LET d == deploys[a]
        IN  C4_HandedOver(d) =>
               IF d.config.includeReadme
               THEN /\ Len(d.filesToUpload) >= Len(d.files)
                    /\ d.filesToUpload[Len(d.filesToUpload)].path = S_README_md
               ELSE d.filesToUpload = d.files

\* C4 amended: with README inclusion requested, every record whose path
\* equals "README.md" case-insensitively is removed (there may be several),
\* the other records are kept in order, and exactly one record with path
\* "README.md" is appended, so that the result holds exactly one such record,
\* the last; without it the file set is handed over unchanged.
C4_ReadmeSynthesis ==
    \A a \in DOMAIN deploys :
        LET d == deploys[a]
            up == d.filesToUpload
            others(fs) == SelectSeq(fs, LAMBDA f : f.path \notin {S_README_md, S_readme_md})
        IN  C4_HandedOver(d) =>
               IF d.config.includeReadme
               THEN /\ Len(up) = Len(d.files) - Cardinality(C4_ReadmeLike(d.files)) + 1
                    /\ C4_ReadmeLike(up) = {Len(up)}
                    /\ up[Len(up)].path = S_README_md
                    /\ up[Len(up)].size = Len(up[Len(up)].content)
                    /\ SubSeq(up, 1, Len(up) - 1) = others(d.files)
               ELSE up = d.files
C4_Witness ==
    \E a \in DOMAIN deploys :
        /\ C4_HandedOver(deploys[a])
        /\ deploys[a].config.includeReadme
        /\ Cardinality(C4_ReadmeLike(deploys[a].files)) = 2
        /\ Len(deploys[a].filesToUpload) = Len(deploys[a].files) - 1

\* C5: once a create-blob request of an attempt has failed, the attempt has
\* failed with "Failed to upload <path>" for the path of a file whose upload
\* failed, the log ends with that error, no file of a later batch has been
\* requested, there is no create-tree, create-commit or update-ref request,
\* and no file has been requested twice.
C5_UploadFailureAborts ==
    \A a \in DOMAIN deploys :
        LET d == deploys[a]
            failed == {k \in DOMAIN d.blob : d.blob[k] = "failed"}
        IN  failed # {} =>
               /\ d.pc = "failed"
               /\ \E k \in failed :
                     /\ d.thrown = Some(Msg("Failed to upload ...", d.filesToUpload[k].path, 0, 0))
                     /\ error = d.thrown
                     /\ LastLog = LogEntry(d.thrown[1], "error")
                     /\ \A j \in DOMAIN d.blob :
                           (j - 1) \div 5 > (k - 1) \div 5 => d.blob[j] = "none"
               /\ Requested(d) \in Seq({"repos.get", "repos.createForAuthenticatedUser",
                                        "git.getRef", "git.getCommit", "git.createBlob"})
               /\ \A k \in DOMAIN d.filesToUpload :
                     Cardinality({i \in DOMAIN d.calls :
                                     /\ d.calls[i].op = "git.createBlob"
                                     /\ d.calls[i].path = d.filesToUpload[k].path}) <= 1
C5_Witness ==
    \E a \in DOMAIN deploys :
        LET d == deploys[a]
        IN  /\ Len(d.filesToUpload) > 5
            /\ d.blob[2] = "failed"
            /\ d.blob[1] = "done"
            /\ d.blob[3] = "pending"
            /\ d.pc = "failed"


\* C3 as stated: while a publish attempt is in progress the wizard step is
\* DEPLOY and the manual return to the configuration step is not on offer
\* (it is offered on the DEPLOY step exactly when an error is set).
C3_InProgressLocksStep ==
    \A a \in DOMAIN deploys :
        Running(deploys[a]) =>
           /\ step = DEPLOY
           /\ ~Truthy(error)

\* C6 as stated: the wizard step changes only along AUTH->UPLOAD,
\* UPLOAD->CONFIG, CONFIG->DEPLOY, DEPLOY->SUCCESS, CONFIG->UPLOAD and
\* DEPLOY->CONFIG; nothing leaves SUCCESS and SUCCESS is entered only from
\* DEPLOY.
C6_Transitions ==
    { <<AUTH, UPLOAD>>, <<UPLOAD, CONFIG>>, <<CONFIG, DEPLOY>>,
      <<DEPLOY, SUCCESS>>, <<CONFIG, UPLOAD>>, <<DEPLOY, CONFIG>> }
C6_OnlyListedTransitions ==
    [][step' # step => <<step, step'>> \in C6_Transitions]_vars

\* C7 as stated: on every step after UPLOAD the file set is non-empty.
C7_FilesNonEmptyAfterUpload ==
    step \in {CONFIG, DEPLOY, SUCCESS} => files # <<>>


\* C8: when the last verification to complete found the token valid but its
\* granted scopes hold neither "repo" nor "public_repo", the outcome is a
\* failure: an error is set, the wizard is still on AUTH, no user is set and
\* the publishing client has not been initialized.
C8_LacksBothScopes(v) ==
    \A i \in DOMAIN v.scopes : v.scopes[i] \notin {S_repo, S_public_repo}
C8_MissingScopeFails ==
    (/\ verification # Null
     /\ ~isVerifying
     /\ verification[1].isValid
     /\ C8_LacksBothScopes(verification[1])) =>
        /\ Truthy(error)
        /\ step = AUTH
        /\ user = Null
        /\ octokit = Null
C8_Witness ==
    /\ verification # Null
    /\ ~isVerifying
    /\ verification[1].isValid
    /\ verification[1].user # Null
    /\ verification[1].scopes # <<>>
    /\ C8_LacksBothScopes(verification[1])
    /\ Truthy(error)
    /\ step = AUTH

\* C9: past the AUTH step a user is set and the publishing client holds a
\* token that a verification found valid and sufficiently scoped; every
\* publish attempt that has requested anything did so through such a
\* client, and no attempt fails with "GitHub client not initialized".
C9_ClientReady == octokit # Null /\ octokit[1] \in verified
C9_VerifiedBeforePublishing ==
    /\ step # AUTH => user # Null /\ C9_ClientReady
    /\ octokit # Null => octokit[1] \in verified
    /\ \A a \in DOMAIN deploys :
          /\ C9_ClientReady
          /\ deploys[a].thrown # Some(Plain("GitHub client not initialized"))
          /\ deploys[a].login = user[1].login
C9_Witness ==
    /\ step = DEPLOY
    /\ user # Null
    /\ \E a \in DOMAIN deploys :
          /\ Len(deploys[a].calls) >= 2
          /\ deploys[a].thrown = Null

\* C10: the n files of an attempt are uploaded in ceil(n/5) batches, batch
\* k (from 0) being positions 5k..min(5k+4, n-1) in input order; no file of
\* a batch is requested before every file of the batches before it is
\* uploaded, and each completed batch is followed by exactly one
\* "Uploaded x/n blobs" message, x being the number of files of the batches
\* completed so far (12 files: 5, 10, 12).
C10_Batches(n) == (n + 4) \div 5
C10_Batch(k, n) == (5 * k + 1)..Min(5 * k + 5, n)
C10_Batching ==
    \A a \in DOMAIN deploys :
        LET d == deploys[a]
            n == Len(d.filesToUpload)
            issued == SelectSeq(d.calls, LAMBDA c : c.op = "git.createBlob")
            msgs == SelectSeq(logs, LAMBDA e : e.message.text = "Uploaded .../... blobs...")
            complete == {k \in 0..(C10_Batches(n) - 1) :
                            \A j \in C10_Batch(k, n) : d.blob[j] = "done"}
        IN  /\ \A j \in DOMAIN issued : issued[j].path = d.filesToUpload[j].path
            /\ \E k \in 0..C10_Batches(n) : Len(issued) = Min(5 * k, n)
            /\ \A k \in 0..(C10_Batches(n) - 1) :
                  (\E j \in C10_Batch(k, n) : d.blob[j] # "none") =>
                     /\ \A j \in C10_Batch(k, n) : d.blob[j] # "none"
                     /\ \A i \in 0..(k - 1) : i \in complete
            /\ Len(msgs) = Cardinality(complete)
            /\ \A m \in DOMAIN msgs :
                  /\ msgs[m].message.x = Min(5 * m, n)
                  /\ msgs[m].message.n = n
            /\ Includes(Requested(d), "git.createTree") => Len(msgs) = C10_Batches(n)
C10_Witness ==
    \E a \in DOMAIN deploys :
        /\ Len(deploys[a].filesToUpload) = 12
        /\ Includes(Requested(deploys[a]), "git.createTree")
        /\ [m \in 1..3 |-> SelectSeq(logs, LAMBDA e : e.message.text = "Uploaded .../... blobs...")[m].message.x]
              = <<5, 10, 12>>
        /\ Cardinality({i \in DOMAIN logs : logs[i].message.text = "Uploaded .../... blobs..."}) = 3


\* C11: the ref of an attempt's update-ref request is the ref of the get-ref
\* request that resolved (the last one requested), which is also where its
\* base commit and the new commit's parent come from; when 'heads/main'
\* failed and 'heads/master' resolved, that is 'heads/master' and the base
\* is the master head commit.
C11_RefsAsked(d) == SelectSeq(d.calls, LAMBDA c : c.op = "git.getRef")
C11_UpdateRefTargetsResolvedRef ==
    \A a \in DOMAIN deploys :
        LET d == deploys[a]
            asked == C11_RefsAsked(d)
            resolved == asked[Len(asked)].ref
            master == Len(asked) = 2
        IN  \A i \in DOMAIN d.calls :
               /\ d.calls[i].op = "git.getCommit" =>
                     /\ resolved = (IF master THEN S_heads_master ELSE S_heads_main)
                     /\ d.calls[i].sha = (IF master THEN "commit-master" ELSE "commit-main")
               /\ d.calls[i].op = "git.createTree" =>
                     d.calls[i].base_tree = (IF master THEN "tree-master" ELSE "tree-main")
               /\ d.calls[i].op = "git.createCommit" =>
                     d.calls[i].parents = <<IF master THEN "commit-master" ELSE "commit-main">>
               /\ d.calls[i].op = "git.updateRef" =>
                     /\ d.calls[i].ref = resolved
                     /\ d.calls[i].sha = "commit-new"
C11_Witness ==
    \E a \in DOMAIN deploys :
        /\ deploys[a].pc = "done"
        /\ Len(C11_RefsAsked(deploys[a])) = 2
        /\ deploys[a].calls[Len(deploys[a].calls)].op = "git.updateRef"
        /\ deploys[a].calls[Len(deploys[a].calls)].ref = S_heads_master
        /\ step = SUCCESS


\* C12: the step in which a handleAiGenerate call ends in failure (the
\* generative-text call threw, answered without text, or answered text that
\* is no JSON) leaves every field of the repository configuration and the
\* wizard step as they were (CONFIG stays CONFIG), and sets the error.
C12_AiCallEnds == BagCardinality(aiCalls') < BagCardinality(aiCalls)
C12_AiFailureKeepsConfig ==
    [][(C12_AiCallEnds /\ aiOutcome'[1].kind \in {"error", "empty", "badjson"}) =>
          /\ repoConfig'.name = repoConfig.name
          /\ repoConfig'.description = repoConfig.description
          /\ repoConfig'.isPrivate = repoConfig.isPrivate
          /\ repoConfig'.includeReadme = repoConfig.includeReadme
          /\ repoConfig'.readmeContent = repoConfig.readmeContent
          /\ step' = step
          /\ Truthy(error')
          /\ ~isProcessing']_vars
C12_Witness ==
    /\ aiOutcome # Null
    /\ aiOutcome[1].kind \in {"empty", "badjson"}
    /\ step = CONFIG
    /\ Truthy(error)
    /\ repoConfig.name = <<"x">>
    /\ aiCalls = EmptyBag


\* C13: the requests of an attempt follow the order existence check, create
\* repository, get-ref (once, or twice for the fallback), get-commit,
\* create-blob (every file), create-tree, create-commit, update-ref, none
\* without all stages before it, and a stage's request is the last one
\* until the stage has succeeded; a failed attempt requests nothing more,
\* and the step in which it fails keeps every log entry and appends one
\* error entry with the failure's message ("Deployment Failed" for a
\* failure without message), which is then the last entry.
C13_Stage(op) ==
    CASE op = "repos.get" -> 1
      [] op = "repos.createForAuthenticatedUser" -> 2
      [] op = "git.getRef" -> 3
      [] op = "git.getCommit" -> 4
      [] op = "git.createBlob" -> 5
      [] op = "git.createTree" -> 6
      [] op = "git.createCommit" -> 7
      [] op = "git.updateRef" -> 8
C13_InOrder(d) ==
    LET stages == [i \in DOMAIN d.calls |-> C13_Stage(d.calls[i].op)]
        times(s) == Count(stages, s)
    IN  /\ \A i \in DOMAIN stages : i > 1 => stages[i - 1] <= stages[i]
        /\ \A s \in {1, 2, 4, 6, 7, 8} : times(s) <= 1
        /\ times(3) <= 2
        /\ times(5) <= Len(d.filesToUpload)
        /\ \A s \in 2..8 : times(s) > 0 =>
              \A t \in 1..(s - 1) : times(t) > 0 \/ (t = 5 /\ d.filesToUpload = <<>>)
        /\ times(6) > 0 => times(5) = Len(d.filesToUpload)
C13_PcOfLast(d) ==
    LET op == d.calls[Len(d.calls)].op
    IN  CASE op = "repos.get" -> {"checkRepoExists"}
          [] op = "repos.createForAuthenticatedUser" -> {"createRepository"}
          [] op = "git.getRef" -> {"getRefMain", "getRefMaster"}
          [] op = "git.getCommit" -> {"getCommit"}
          [] op = "git.createBlob" -> {"createBlob"}
          [] op = "git.createTree" -> {"createTree"}
          [] op = "git.createCommit" -> {"createCommit"}
          [] op = "git.updateRef" -> {"updateRef"}
C13_FailsNow(a) ==
    /\ a \in DOMAIN deploys
    /\ deploys[a].pc # "failed"
    /\ deploys'[a].pc = "failed"
C13_OrderedAndShortCircuit ==
    /\ [](\A a \in DOMAIN deploys :
            /\ C13_InOrder(deploys[a])
            /\ Running(deploys[a]) => deploys[a].pc \in C13_PcOfLast(deploys[a])
            /\ deploys[a].pc = "done" => Len(deploys[a].calls) >= 7)
    /\ [][\A a \in DOMAIN deploys :
            /\ deploys[a].pc = "failed" => deploys'[a].calls = deploys[a].calls
            /\ C13_FailsNow(a) =>
                  /\ deploys'[a].calls = deploys[a].calls
                  /\ deploys'[a].thrown # Null
                  /\ Len(logs') = Len(logs) + 1
                  /\ SubSeq(logs', 1, Len(logs)) = logs
                  /\ logs'[Len(logs')].type = "error"
                  /\ logs'[Len(logs')].message =
                        (IF deploys'[a].thrown[1].text = ""
                         THEN Plain("Deployment Failed")
                         ELSE deploys'[a].thrown[1])]_vars
C13_Witness ==
    \E a \in DOMAIN deploys :
        /\ deploys[a].pc = "failed"
        /\ Requested(deploys[a])[Len(deploys[a].calls)] = "git.createCommit"
        /\ Len(logs) > 8
        /\ LastLog = LogEntry(Plain("Server Error"), "error")


\* C14: at every moment an attempt has at most 5 create-blob requests in
\* flight (requested and not yet settled), also after one upload of a batch
\* has failed while others of that batch are still pending.
C14_InFlight(d) == {k \in DOMAIN d.blob : d.blob[k] = "pending"}
C14_AtMostFiveInFlight ==
    \A a \in DOMAIN deploys :
        /\ Cardinality(C14_InFlight(deploys[a])) <= 5
        /\ Count(Requested(deploys[a]), "git.createBlob")
              - Cardinality({k \in DOMAIN deploys[a].blob :
                                deploys[a].blob[k] \in {"done", "failed"}}) <= 5
C14_Witness ==
    \E a \in DOMAIN deploys :
        /\ Len(deploys[a].filesToUpload) > 5
        /\ deploys[a].pc = "failed"
        /\ \E k \in DOMAIN deploys[a].blob : deploys[a].blob[k] = "failed"
        /\ Cardinality(C14_InFlight(deploys[a])) = 4


\* C15: the tree-entry list of a create-tree request holds, for every
\* FileRecord uploadFiles was given, exactly one entry with the record's
\* path, mode "100644", type "blob" and the id of the blob made from its
\* content, and nothing else, whatever the order in which the uploads of a
\* batch completed.
C15_Entry(file) ==
    [path |-> file.path, mode |-> "100644", type |-> "blob",
     sha |-> <<"b", ":">> \o file.content]
C15_TreeRequests(d) == SelectSeq(d.calls, LAMBDA c : c.op = "git.createTree")
C15_TreeHoldsEveryFile ==
    \A a \in DOMAIN deploys :
        LET d == deploys[a]
            given == d.filesToUpload
        IN  \A i \in DOMAIN C15_TreeRequests(d) :
               LET tree == C15_TreeRequests(d)[i].tree
               IN  /\ Len(tree) = Len(given)
                   /\ \A k \in DOMAIN given :
                         Cardinality({j \in DOMAIN tree : tree[j] = C15_Entry(given[k])})
                            = Cardinality({j \in DOMAIN given :
                                              C15_Entry(given[j]) = C15_Entry(given[k])})
                   /\ \A j \in DOMAIN tree :
                         \E k \in DOMAIN given : tree[j] = C15_Entry(given[k])
C15_Witness ==
    \E a \in DOMAIN deploys :
        LET d == deploys[a]
        IN  /\ C15_TreeRequests(d) # <<>>
            /\ Len(d.filesToUpload) > 5
            /\ \E k \in DOMAIN d.filesToUpload : d.filesToUpload[k].content = <<>>
            /\ C15_TreeRequests(d)[1].tree[1].path = d.filesToUpload[3].path
            /\ d.config.includeReadme


\* C16 as stated: every update-ref request is issued as a forced update
\* (the force parameter is passed as true).
C16_UpdateRefForced ==
    \A a \in DOMAIN deploys :
        \A i \in DOMAIN deploys[a].calls :
            deploys[a].calls[i].op = "git.updateRef" =>
               deploys[a].calls[i].force = Some(TRUE)


\* C17: the wizard goes from CONFIG to DEPLOY only in a step that starts a
\* publish attempt, only with a non-empty repoConfig.name, and the attempt
\* keeps that name: its existence check, its creation request and every
\* upload request name the repository by it.
C17_NonEmptyNameThroughout ==
    /\ [](\A a \in DOMAIN deploys :
            /\ deploys[a].config.name # <<>>
            /\ \A i \in DOMAIN deploys[a].calls :
                  deploys[a].calls[i].repo = deploys[a].config.name)
    /\ [][/\ (step = CONFIG /\ step' = DEPLOY) =>
                /\ repoConfig.name # <<>>
                /\ Len(deploys') = Len(deploys) + 1
          /\ Len(deploys') # Len(deploys) =>
                /\ Len(deploys') = Len(deploys) + 1
                /\ step = CONFIG
                /\ step' = DEPLOY
                /\ deploys'[Len(deploys')].config.name = repoConfig.name
          /\ \A a \in DOMAIN deploys :
                /\ a \in DOMAIN deploys'
                /\ deploys'[a].config = deploys[a].config]_vars
C17_Witness ==
    \E a \in DOMAIN deploys :
        /\ deploys[a].config.name = <<"x">>
        /\ repoConfig.name = <<"x">>
        /\ Len(deploys[a].calls) >= 3
        /\ deploys[a].calls[2].op = "repos.createForAuthenticatedUser"
        /\ deploys[a].calls[2].repo = <<"x">>


\* C18: whatever the identity endpoint answered, verifyToken returned a
\* result: for a failure, isValid = false, no scopes, no user and a
\* non-empty reason; for a success, isValid = true, the identity (the name
\* falling back to the login) and the scopes of the header: its
\* comma-separated parts without surrounding blanks, one empty scope when
\* the header is absent.
RECURSIVE C18_Join(_)
C18_Join(parts) ==
    IF Len(parts) = 1 THEN parts[1]
    ELSE parts[1] \o <<",">> \o C18_Join(Tail(parts))
C18_NoBlanks(s) == SelectSeq(s, LAMBDA c : c # " ")
C18_VerifyTokenTotal ==
    verification # Null =>
       LET v == verification[1]
           answer == identity[1]
           header == IF answer.header = Null THEN <<>> ELSE answer.header[1]
       IN  /\ identity # Null
           /\ v.isValid = answer.ok
           /\ IF answer.ok
              THEN /\ v.user = Some([login |-> answer.login,
                                     name |-> IF answer.name = <<>> THEN answer.login
                                              ELSE answer.name])
                   /\ v.scopes # <<>>
                   /\ \A i \in DOMAIN v.scopes :
                         /\ \A j \in DOMAIN v.scopes[i] : v.scopes[i][j] # ","
                         /\ v.scopes[i] # <<>> =>
                               /\ v.scopes[i][1] # " "
                               /\ v.scopes[i][Len(v.scopes[i])] # " "
                   /\ C18_NoBlanks(C18_Join(v.scopes)) = C18_NoBlanks(header)
              ELSE /\ v.scopes = <<>>
                   /\ v.user = Null
                   /\ v.error # ""
C18_Witness ==
    /\ verification # Null
    /\ identity # Null
    /\ ~identity[1].ok
    /\ identity[1].message = ""
    /\ verification[1].error = "Invalid Token"
    /\ ~isVerifying
    /\ step = AUTH


\* C19: the step in which a handleFileUpload call ends because decoding
\* failed (a file named *.zip that is no readable archive) sets the error and
\* leaves the wizard step (UPLOAD stays UPLOAD, no move to CONFIG), the file
\* list and the repository configuration as they were.
C19_Undecodable(file) ==
    /\ Len(file.name) >= 4
    /\ SubSeq(file.name, Len(file.name) - 3, Len(file.name)) = <<".", "z", "i", "p">>
    /\ file.zip = Null
C19_DecodeFailureKeepsState ==
    [][\A file \in BagToSet(uploads) :
          (CopiesIn(file, uploads') < CopiesIn(file, uploads) /\ C19_Undecodable(file)) =>
             /\ Truthy(error')
             /\ step' = step
             /\ (step = UPLOAD => step' = UPLOAD)
             /\ files' = files
             /\ repoConfig' = repoConfig
             /\ ~isProcessing']_vars
C19_Witness ==
    /\ step = UPLOAD
    /\ error = Some(Plain("Failed to process file. Ensure it is a valid Zip."))
    /\ uploads = EmptyBag
    /\ files = <<>>
    /\ repoConfig = EmptyConfig
    /\ ~isProcessing


\* C20: the records handed to uploadFiles have pairwise distinct paths,
\* and so have the entries of every create-tree request.
C20_Distinct(paths) ==
    \A i, j \in DOMAIN paths : paths[i] = paths[j] => i = j
C20_UniquePaths ==
    \A a \in DOMAIN deploys :
        LET d == deploys[a]
        IN  /\ C20_Distinct([k \in DOMAIN d.filesToUpload |-> d.filesToUpload[k].path])
            /\ \A i \in DOMAIN d.calls :
                  d.calls[i].op = "git.createTree" =>
                     /\ C20_Distinct([k \in DOMAIN d.calls[i].tree |-> d.calls[i].tree[k].path])
                     /\ Len(d.calls[i].tree) = Len(d.filesToUpload)
C20_Witness ==
    \E a \in DOMAIN deploys :
        LET d == deploys[a]
        IN  /\ d.config.includeReadme
            /\ \E k \in DOMAIN d.files : d.files[k].path = <<"R","E","A","D","M","E",".","m","d">>
            /\ Len(d.files) > 5
            /\ d.calls[Len(d.calls)].op = "git.createTree"
            /\ Len(d.calls[Len(d.calls)].tree) = 5


\* C21: when a handleFileUpload call ends with the records of a readable
\* archive named *.zip, the file list holds one record per non-directory
\* entry, in entry order and with the entry's path, and none for a
\* directory; when it ends for a file not named *.zip, the file list holds
\* exactly one record, whose path is the file's name.
C21_NamedZip(file) ==
    /\ Len(file.name) >= 4
    /\ SubSeq(file.name, Len(file.name) - 3, Len(file.name)) = <<".", "z", "i", "p">>
C21_EntryPaths(file) ==
    LET entries == file.zip[1]
        plain == SelectSeq(entries, LAMBDA e : ~e.dir)
    IN  [i \in DOMAIN plain |-> plain[i].name]
C21_OneRecordPerEntry ==
    [][\A file \in BagToSet(uploads) :
          CopiesIn(file, uploads') < CopiesIn(file, uploads) =>
             /\ (C21_NamedZip(file) /\ file.zip # Null) =>
                   /\ Len(files') = Cardinality({i \in DOMAIN file.zip[1] : ~file.zip[1][i].dir})
                   /\ [i \in DOMAIN files' |-> files'[i].path] = C21_EntryPaths(file)
             /\ ~C21_NamedZip(file) =>
                   /\ Len(files') = 1
                   /\ files'[1].path = file.name]_vars
C21_Witness ==
    /\ Len(files) = 1
    /\ files[1].path = <<"r","e","a","d","m","e",".","m","d">>
    /\ step = CONFIG
    /\ uploads = EmptyBag


\* C22 as stated: every change of the log leaves the entries it had in
\* place and adds at the end; the log never gets shorter.
C22_Extends(before, after) ==
    /\ Len(after) >= Len(before)
    /\ SubSeq(after, 1, Len(before)) = before
C22_AppendOnly ==
    [][C22_Extends(logs, logs')]_vars

\* C22 amended: a change of the log either adds entries at the end and
\* leaves the entries it had in place, or starts the log afresh: the start
\* of a publish attempt replaces it by the attempt's own entries, beginning
\* with "Initializing deployment for <name>...", and "Deploy Another
\* Project" empties it.
C22_AppendOnlyWithinAttempt ==
    [][\/ C22_Extends(logs, logs')
       \/ /\ Len(deploys') = Len(deploys) + 1
          /\ logs' # <<>>
          /\ logs'[1] = LogEntry(Msg("Initializing deployment for ...",
                                     deploys'[Len(deploys')].config.name, 0, 0), "info")
          /\ step' = DEPLOY
       \/ /\ step = SUCCESS
          /\ step' = UPLOAD
          /\ logs' = <<>>]_vars
C22_Witness ==
    /\ step = UPLOAD
    /\ logs = <<>>
    /\ files = <<>>
    /\ Len(deploys) = 1
    /\ deploys[1].pc = "done"
    /\ Len(deploys[1].calls) >= 7

\* C23 as stated: at most one publish attempt is in progress at any time.
C23_OneAttemptAtATime ==
    Cardinality({a \in DOMAIN deploys : Running(deploys[a])}) <= 1


\* C24 as stated: a step that merges an AI suggestion into the
\* configuration happens on CONFIG and for the wizard's current file list:
\* the paths the suggestion was generated from are the paths of the files.
C24_SuggestionForCurrentUpload ==
    [][\A paths \in BagToSet(aiCalls) :
          (/\ CopiesIn(paths, aiCalls') < CopiesIn(paths, aiCalls)
           /\ aiOutcome'[1].kind = "json") =>
             /\ step = CONFIG
             /\ paths = [i \in DOMAIN files |-> files[i].path]]_vars


\* C25: in every publish attempt that ran to its end there is exactly one
\* get-commit, create-tree, create-commit and update-ref request; the new
\* commit has exactly one parent, the commit the resolved ref pointed to
\* (the one get-commit was asked for); its tree is the tree create-tree
\* returned; create-tree was based on the tree of that head commit; and
\* update-ref was given the commit create-commit returned.
C25_Only(d, op) == SelectSeq(d.calls, LAMBDA c : c.op = op)
C25_CommitChain ==
    \A a \in DOMAIN deploys :
        deploys[a].pc = "done" =>
            LET d == deploys[a]
                refs == C25_Only(d, "git.getRef")
                head == RefData(refs[Len(refs)].ref).sha
                getCommit == C25_Only(d, "git.getCommit")
                createTree == C25_Only(d, "git.createTree")
                createCommit == C25_Only(d, "git.createCommit")
                updateRef == C25_Only(d, "git.updateRef")
            IN  /\ Len(getCommit) = 1 /\ Len(createTree) = 1
                /\ Len(createCommit) = 1 /\ Len(updateRef) = 1
                /\ getCommit[1].sha = head
                /\ Len(createCommit[1].parents) = 1
                /\ createCommit[1].parents[1] = head
                /\ createCommit[1].tree = d.newTreeSha
                /\ d.newTreeSha = NewTreeSha
                /\ createTree[1].base_tree = CommitTree(head)
                /\ updateRef[1].sha = d.newCommitSha
                /\ d.newCommitSha = NewCommitSha
C25_Witness ==
    \E a \in DOMAIN deploys :
        /\ deploys[a].pc = "done"
        /\ C25_Only(deploys[a], "git.createCommit")[1].parents = <<"commit-main">>
        /\ C25_Only(deploys[a], "git.createTree")[1].base_tree = "tree-main"
        /\ Len(C25_Only(deploys[a], "git.createTree")[1].tree) >= 1
        /\ C25_Only(deploys[a], "git.updateRef")[1].sha = "commit-new"


\* C26: an attempt asks for a ref at most twice, first for 'heads/main' and
\* then, at most once and only after the 'heads/main' request failed, for
\* 'heads/master'; when neither resolved the attempt has failed and has issued
\* no get-commit, create-blob, create-tree, create-commit or update-ref
\* request, and it issues one of these only after a ref resolved.
C26_AfterRef ==
    {"git.getCommit", "git.createBlob", "git.createTree", "git.createCommit", "git.updateRef"}
C26_FallbackOnce ==
    \A a \in DOMAIN deploys :
        LET d == deploys[a]
            asked == SelectSeq(d.calls, LAMBDA c : c.op = "git.getRef")
            later == { i \in DOMAIN d.calls : d.calls[i].op \in C26_AfterRef }
        IN  /\ Len(asked) <= 2
            /\ Len(d.refAnswers) <= Len(asked)
            /\ Len(asked) >= 1 => asked[1].ref = S_heads_main
            /\ Len(asked) = 2 =>
                  /\ asked[2].ref = S_heads_master
                  /\ Len(d.refAnswers) >= 1
                  /\ d.refAnswers[1] = FALSE
            /\ d.refAnswers = <<FALSE, FALSE>> =>
                  /\ d.pc = "failed"
                  /\ d.thrown # Null
                  /\ later = {}
            /\ later # {} =>
                  /\ Len(d.refAnswers) = Len(asked)
                  /\ d.refAnswers[Len(d.refAnswers)] = TRUE
C26_Witness ==
    \E a \in DOMAIN deploys :
        /\ deploys[a].refAnswers = <<FALSE, FALSE>>
        /\ deploys[a].pc = "failed"
        /\ deploys[a].calls[Len(deploys[a].calls)].op = "git.getRef"
        /\ deploys[a].calls[Len(deploys[a].calls)].ref = S_heads_master
        /\ step = DEPLOY
        /\ error # Null


\* C27: whenever the step is SUCCESS some attempt ran through update-ref
\* with nothing thrown and no upload failed, and deployUrl is
\* 'https://github.com/<login>/<name>' of such an attempt; the step in which
\* an attempt completes sets deployUrl to that attempt's URL and the step to
\* SUCCESS, and neither deployUrl changes nor SUCCESS is entered in any other
\* step (so deployUrl is the URL of the attempt that succeeded last, and an
\* attempt that failed never leads to SUCCESS).
C27_Url(d) == <<"h","t","t","p","s",":","/","/","g","i","t","h","u","b",".","c","o","m","/">>
                 \o d.login \o <<"/">> \o d.config.name
C27_Succeeded(d) ==
    /\ d.pc = "done"
    /\ d.thrown = Null
    /\ Len(d.calls) >= 5
    /\ d.calls[Len(d.calls)].op = "git.updateRef"
    /\ \A k \in DOMAIN d.blob : d.blob[k] \in {"done", "skipped"}
    /\ \A op \in {"repos.get", "git.getRef", "git.getCommit", "git.createTree",
                  "git.createCommit"} : \E i \in DOMAIN d.calls : d.calls[i].op = op
C27_Completes(a) == deploys[a].pc # "done" /\ deploys'[a].pc = "done"
C27_SuccessMeansPublished ==
    /\ [](step = SUCCESS =>
             \E a \in DOMAIN deploys :
                /\ C27_Succeeded(deploys[a])
                /\ deployUrl = Some(C27_Url(deploys[a])))
    /\ [][/\ \A a \in DOMAIN deploys :
                C27_Completes(a) =>
                   /\ C27_Succeeded(deploys'[a])
                   /\ deployUrl' = Some(C27_Url(deploys[a]))
                   /\ step' = SUCCESS
          /\ (deployUrl' # deployUrl \/ (step' = SUCCESS /\ step # SUCCESS)) =>
                \E a \in DOMAIN deploys : C27_Completes(a)]_vars
C27_Witness ==
    /\ step = SUCCESS
    /\ \E a \in DOMAIN deploys :
          /\ deploys[a].pc = "done"
          /\ deployUrl = Some(C27_Url(deploys[a]))
    /\ \E a \in DOMAIN deploys : deploys[a].pc = "failed"


\* C28: the step in which a generative-text call ends leaves the visibility
\* flag, the README-inclusion flag, the file list, the wizard step, the
\* user profile and the log as they were; when the call failed the three
\* text fields are unchanged too, and when it succeeded each of the name, the
\* description and the README text is the suggested value if that value is
\* non-empty and is unchanged otherwise.
C28_Kept(field) ==
    IF aiOutcome'[1].kind = "json" /\ aiOutcome'[1][field] # <<>>
    THEN repoConfig'[field] = aiOutcome'[1][field]
    ELSE repoConfig'[field] = repoConfig[field]
C28_AiCompletionFrame ==
    [][BagCardinality(aiCalls') < BagCardinality(aiCalls) =>
          /\ repoConfig'.isPrivate = repoConfig.isPrivate
          /\ repoConfig'.includeReadme = repoConfig.includeReadme
          /\ files' = files
          /\ step' = step
          /\ user' = user
          /\ logs' = logs
          /\ C28_Kept("name")
          /\ C28_Kept("description")
          /\ C28_Kept("readmeContent")]_vars
C28_Witness ==
    /\ aiOutcome # Null
    /\ aiOutcome[1].kind = "json"
    /\ aiOutcome[1].name = <<>>
    /\ aiOutcome[1].description # <<>>
    /\ repoConfig.description = aiOutcome[1].description
    /\ repoConfig.name # <<>>
    /\ repoConfig.readmeContent = <<>>
    /\ files # <<>>
    /\ aiCalls = EmptyBag

====
